---- MODULE Spec2Model ----
(***************************************************************************)
(* Model of pyatv/conf.py: the AppleTV configuration (a mapping from       *)
(* protocol to at most one service), its registration/merge logic and its  *)
(* resolution policy (ready, identifier, main_service, device_info,        *)
(* equality).                                                              *)
(*                                                                         *)
(* Python values are represented as follows:                               *)
(*   - identifiers, credentials, names, addresses: TLA+ strings, with the  *)
(*     reserved string None standing for Python's None and "" for the      *)
(*     empty string;                                                       *)
(*   - property values: sequences of one-character strings, so that        *)
(*     str.upper() is computed character by character; NoValue stands for  *)
(*     None where a property value is expected;                            *)
(*   - ports: integers, NoPort standing for None;                          *)
(*   - a service object: a record [identifier, protocol, port, properties, *)
(*     credentials]; NoService stands for None where a service is expected;*)
(*     NoProps stands for None where a dict of properties is expected;     *)
(*   - a dict of properties: a function from its keys to its values;       *)
(*   - the insertion-ordered dict _services: a sequence of [key, value]    *)
(*     entries in insertion order.                                         *)
(***************************************************************************)
EXTENDS Integers, Sequences, FiniteSets, TLC

\* self:  the AppleTV instance under test: [address, name, _services]
\* other: a second AppleTV instance, the right-hand side of __eq__
\* last:  the last call made: its name, the instance it was made on, its
\*        arguments, return value and exception, and whether it repeats the
\*        call made before it
\* calls: number of calls made so far
VARIABLES self, other, last, calls

vars == <<self, other, last, calls>>

-----------------------------------------------------------------------------
(* Bounds *)

MaxCalls == 3

-----------------------------------------------------------------------------
(* Python values *)

None == "None"
NoValue == <<"None">>
NoPort == -1
NoService == [none |-> TRUE]
NoProps == [none |-> TRUE]

MRP == "MRP"
DMAP == "DMAP"
AirPlay == "AirPlay"
Protocols == {MRP, DMAP, AirPlay}

TvOS == "TvOS"
Legacy == "Legacy"
Unknown == "Unknown"

Lower == <<"a", "b", "c", "d", "e", "f", "g", "h", "i", "j", "k", "l", "m",
           "n", "o", "p", "q", "r", "s", "t", "u", "v", "w", "x", "y", "z">>
Capital == <<"A", "B", "C", "D", "E", "F", "G", "H", "I", "J", "K", "L", "M",
             "N", "O", "P", "Q", "R", "S", "T", "U", "V", "W", "X", "Y", "Z">>

\* str.upper(): every lower-case letter is replaced by its capital
upper_char(c) ==
    IF \E i \in 1..Len(Lower) : Lower[i] = c
    THEN Capital[CHOOSE i \in 1..Len(Lower) : Lower[i] = c]
    ELSE c

upper(s) == [i \in 1..Len(s) |-> upper_char(s[i])]

\* Truth value of a str-or-None (None and "" are false)
truthy_str(s) == s # None /\ s # ""

\* Truth value of a property value (None and the empty string are false)
truthy_value(v) == v # NoValue /\ v # << >>

\* Truth value of an int-or-None (None and 0 are false)
truthy_int(n) == n # NoPort /\ n # 0

\* Truth value of a service-or-None: BaseService defines neither __bool__
\* nor __len__, so every service object is true
truthy_service(s) == s # NoService

-----------------------------------------------------------------------------
(* dict operations *)

EmptyDict == << >>

\* key in d
dict_contains(d, k) == \E i \in 1..Len(d) : d[i].key = k

\* d.get(k)
dict_get(d, k) ==
    IF dict_contains(d, k)
    THEN d[CHOOSE i \in 1..Len(d) : d[i].key = k].value
    ELSE NoService

\* d[k] = v: a new key is appended, an existing key keeps its position
dict_setitem(d, k, v) ==
    IF dict_contains(d, k)
    THEN [i \in 1..Len(d) |-> IF d[i].key = k THEN [key |-> k, value |-> v] ELSE d[i]]
    ELSE Append(d, [key |-> k, value |-> v])

\* list(d.values())
dict_values(d) == [i \in 1..Len(d) |-> d[i].value]

EmptyProps == [k \in {} |-> << >>]

\* p.get(k, default) on a properties dict
props_get(p, k, default) == IF k \in DOMAIN p THEN p[k] ELSE default

\* p.update(q) on a properties dict
props_update(p, q) ==
    [k \in (DOMAIN p) \cup (DOMAIN q) |-> IF k \in DOMAIN q THEN q[k] ELSE p[k]]

-----------------------------------------------------------------------------
(* Services *)

\* BaseService.__init__ (pyatv.interface)
BaseService(identifier, protocol, port, properties) ==
    [identifier  |-> identifier,
     protocol    |-> protocol,
     port        |-> port,
     properties  |-> IF properties = NoProps THEN EmptyProps ELSE properties,
     credentials |-> None]

\* BaseService.merge (pyatv.interface): the outcome of existing.merge(service),
\* the merged state of existing or the exception raised
merge(existing, service) ==
    IF service.protocol # existing.protocol
    THEN [raised |-> "InvariantError", value |-> existing]
    ELSE [raised |-> None,
          value  |-> [existing EXCEPT
                        !.properties = props_update(@, service.properties),
                        !.credentials = IF truthy_str(service.credentials)
                                        THEN service.credentials
                                        ELSE @]]

DmapService(identifier, credentials, port, properties) ==
    [BaseService(identifier, DMAP, IF truthy_int(port) THEN port ELSE 3689, properties)
        EXCEPT !.credentials = credentials]

MrpService(identifier, port, credentials, properties) ==
    [BaseService(identifier, MRP, port, properties)
        EXCEPT !.credentials = credentials]

AirPlayService(identifier, port, credentials, properties) ==
    [BaseService(identifier, AirPlay, port, properties)
        EXCEPT !.credentials = credentials]

-----------------------------------------------------------------------------
(* AppleTV *)

AppleTV(address, name) ==
    [address |-> address, name |-> name, _services |-> EmptyDict]

\* AppleTV.ready
ready_dmap_only(conf) ==
    LET has_dmap == dict_contains(conf._services, DMAP)
    IN  has_dmap

ready_any_service(conf) ==
    LET has_dmap == dict_contains(conf._services, DMAP)
        has_mrp  == dict_contains(conf._services, MRP)
        has_airplay == dict_contains(conf._services, AirPlay)
    IN  has_dmap \/ has_mrp \/ has_airplay

ready(conf) ==
    LET has_dmap == dict_contains(conf._services, DMAP)
        has_mrp  == dict_contains(conf._services, MRP)
    IN  has_dmap \/ has_mrp

\* AppleTV.identifier: the for loop over the remaining protocols prots
RECURSIVE identifier_loop(_, _)
identifier_loop(conf, prots) ==
    IF prots = << >>
    THEN None
    ELSE LET service == dict_get(conf._services, Head(prots))
         IN  IF truthy_service(service)
             THEN service.identifier
             ELSE identifier_loop(conf, Tail(prots))

identifier(conf) == identifier_loop(conf, <<MRP, DMAP, AirPlay>>)

\* AppleTV.get_service
get_service(conf, protocol) == dict_get(conf._services, protocol)

\* AppleTV.services
services(conf) == dict_values(conf._services)

\* AppleTV.all_identifiers
all_identifiers_unfiltered(conf) ==
    LET kept == services(conf)
    IN  [i \in 1..Len(kept) |-> kept[i].identifier]

all_identifiers(conf) ==
    LET kept == SelectSeq(services(conf), LAMBDA x : x.identifier # None)
    IN  [i \in 1..Len(kept) |-> kept[i].identifier]

\* AppleTV.add_service: the configuration afterwards and the exception raised
add_service_insert_always(conf, service) ==
    [conf   |-> [conf EXCEPT !._services =
                    Append(@, [key |-> service.protocol, value |-> service])],
     raised |-> None]

add_service_replace(conf, service) ==
    [conf   |-> [conf EXCEPT !._services =
                    dict_setitem(@, service.protocol, service)],
     raised |-> None]

add_service_keep_existing(conf, service) ==
    LET existing == dict_get(conf._services, service.protocol)
    IN  IF existing # NoService
        THEN [conf |-> conf, raised |-> None]
        ELSE [conf   |-> [conf EXCEPT !._services =
                             dict_setitem(@, service.protocol, service)],
              raised |-> None]

add_service_duplicate(conf, service) ==
    LET existing == dict_get(conf._services, service.protocol)
    IN  IF existing # NoService
        THEN LET merged == merge(existing, service)
             IN  [conf   |-> [conf EXCEPT !._services =
                                 Append(dict_setitem(@, service.protocol, merged.value),
                                        [key |-> service.protocol, value |-> service])],
                  raised |-> merged.raised]
        ELSE [conf   |-> [conf EXCEPT !._services =
                             dict_setitem(@, service.protocol, service)],
              raised |-> None]

add_service_reset(conf, service) ==
    LET existing == dict_get(conf._services, service.protocol)
    IN  IF existing # NoService
        THEN LET merged == merge(existing, service)
             IN  [conf   |-> [conf EXCEPT !._services =
                                 dict_setitem(@, service.protocol, merged.value)],
                  raised |-> merged.raised]
        ELSE [conf   |-> [conf EXCEPT !._services =
                             dict_setitem(EmptyDict, service.protocol, service)],
              raised |-> None]

add_service_by_identifier(conf, service) ==
    LET same == {i \in 1..Len(conf._services) :
                    conf._services[i].value.identifier = service.identifier}
        existing == IF same = {} THEN NoService
                    ELSE conf._services[CHOOSE i \in same : \A j \in same : i <= j].value
    IN  IF existing # NoService
        THEN LET merged == merge(existing, service)
             IN  [conf   |-> [conf EXCEPT !._services =
                                 dict_setitem(@, existing.protocol, merged.value)],
                  raised |-> merged.raised]
        ELSE [conf   |-> [conf EXCEPT !._services =
                             dict_setitem(@, service.protocol, service)],
              raised |-> None]

add_service(conf, service) ==
    LET existing == dict_get(conf._services, service.protocol)
    IN  IF existing # NoService
        THEN LET merged == merge(existing, service)
             IN  [conf   |-> [conf EXCEPT !._services =
                                 dict_setitem(@, service.protocol, merged.value)],
                  raised |-> merged.raised]
        ELSE [conf   |-> [conf EXCEPT !._services =
                             dict_setitem(@, service.protocol, service)],
              raised |-> None]

\* AppleTV.main_service: the for loop over the remaining protocols prots
RECURSIVE main_service_loop(_, _)
main_service_loop(conf, prots) ==
    IF prots = << >>
    THEN [raised |-> "NoServiceError", value |-> NoService]
    ELSE LET service == dict_get(conf._services, Head(prots))
         IN  IF service # NoService
             THEN [raised |-> None, value |-> service]
             ELSE main_service_loop(conf, Tail(prots))

\* AppleTV.main_service: the service returned or the exception raised
main_service_dmap_first(conf, protocol) ==
    LET protocols == IF protocol # None THEN <<protocol>> ELSE <<DMAP, MRP>>
    IN  main_service_loop(conf, protocols)

main_service_fallback(conf, protocol) ==
    LET protocols == IF protocol # None THEN <<protocol, MRP, DMAP>> ELSE <<MRP, DMAP>>
    IN  main_service_loop(conf, protocols)

main_service(conf, protocol) ==
    LET protocols == IF protocol # None THEN <<protocol>> ELSE <<MRP, DMAP>>
    IN  main_service_loop(conf, protocols)

\* AppleTV.set_credentials: the configuration afterwards and the value returned
set_credentials_create(conf, protocol, credentials) ==
    LET service == get_service(conf, protocol)
    IN  IF truthy_service(service)
        THEN [conf  |-> [conf EXCEPT !._services =
                            dict_setitem(@, protocol,
                                [service EXCEPT !.credentials = credentials])],
              value |-> TRUE]
        ELSE [conf  |-> [conf EXCEPT !._services =
                            dict_setitem(@, protocol,
                                [BaseService(None, protocol, NoPort, NoProps)
                                    EXCEPT !.credentials = credentials])],
              value |-> FALSE]

set_credentials_all(conf, protocol, credentials) ==
    LET service == get_service(conf, protocol)
    IN  IF truthy_service(service)
        THEN [conf  |-> [conf EXCEPT !._services =
                            [i \in 1..Len(@) |->
                                [@[i] EXCEPT !.value.credentials = credentials]]],
              value |-> TRUE]
        ELSE [conf |-> conf, value |-> FALSE]

set_credentials(conf, protocol, credentials) ==
    LET service == get_service(conf, protocol)
    IN  IF truthy_service(service)
        THEN [conf  |-> [conf EXCEPT !._services =
                            dict_setitem(@, protocol,
                                [service EXCEPT !.credentials = credentials])],
              value |-> TRUE]
        ELSE [conf |-> conf, value |-> FALSE]

\* AppleTV._all_properties: the for loop over the remaining services svcs
RECURSIVE all_properties_loop(_, _)
all_properties_loop(properties, svcs) ==
    IF svcs = << >>
    THEN properties
    ELSE all_properties_loop(props_update(properties, Head(svcs).properties), Tail(svcs))

_all_properties_reversed(conf) ==
    LET svcs == services(conf)
    IN  all_properties_loop(EmptyProps, [i \in 1..Len(svcs) |-> svcs[Len(svcs) + 1 - i]])

_all_properties(conf) == all_properties_loop(EmptyProps, services(conf))

\* lookup_version, lookup_model (pyatv.support.device_info): absent in,
\* absent out; the static tables hold none of the values modelled here
lookup_version(build) == NoValue

lookup_model(model) == NoValue

\* DeviceInfo (pyatv.interface)
DeviceInfo(os_type, version, build, model, mac) ==
    [os_type |-> os_type, version |-> version, build |-> build,
     model |-> model, mac |-> mac]

\* AppleTV.device_info: the choice of os_type
device_info_os_type_dmap_first(conf) ==
    IF dict_contains(conf._services, DMAP) THEN Legacy
    ELSE IF dict_contains(conf._services, MRP) THEN TvOS
    ELSE Unknown

device_info_os_type(conf) ==
    IF dict_contains(conf._services, MRP) THEN TvOS
    ELSE IF dict_contains(conf._services, DMAP) THEN Legacy
    ELSE Unknown

\* AppleTV.device_info: the mac address
device_info_mac_deviceid_first(properties) ==
    LET mac == props_get(properties, "deviceid",
                         props_get(properties, "macAddress", NoValue))
    IN  IF truthy_value(mac) THEN upper(mac) ELSE mac

device_info_mac(properties) ==
    LET mac == props_get(properties, "macAddress",
                         props_get(properties, "deviceid", NoValue))
    IN  IF truthy_value(mac) THEN upper(mac) ELSE mac

\* AppleTV.device_info
device_info(conf) ==
    LET properties == _all_properties(conf)
        os_type    == device_info_os_type(conf)
        build      == props_get(properties, "SystemBuildVersion", NoValue)
        model      == props_get(properties, "model", NoValue)
        version    == props_get(properties, "osvers", lookup_version(build))
        mac        == device_info_mac(properties)
    IN  DeviceInfo(os_type, version, build, lookup_model(model), mac)

\* isinstance(o, AppleTV)
is_AppleTV(o) == DOMAIN o = {"address", "name", "_services"}

\* AppleTV.__eq__
__eq__(conf, o) ==
    IF is_AppleTV(o) THEN identifier(conf) = identifier(o) ELSE FALSE

-----------------------------------------------------------------------------
(* Inputs *)

AirPlayDefaultPort == 7000

IdA == "ABC"
IdB == "XYZ"

MacA == <<"a", "a", ":", "b", "1">>
MacB == <<"E", "e", ":", "0", "2">>
DevA == <<"c", "c", ":", "d", "3">>
DevB == <<"0", "4", ":", "f", "f">>

PropsMacA == [k \in {"macAddress"} |-> MacA]
PropsDevA == [k \in {"deviceid"} |-> DevA]
PropsMacBDevB == [k \in {"macAddress", "deviceid"} |->
                    IF k = "macAddress" THEN MacB ELSE DevB]

\* The constructor arguments services are created with: dport, mport and
\* aport are the port given to DmapService, MrpService and AirPlayService
\* (the port of DmapService and AirPlayService is optional)
ArgsNoId == [identifier |-> None, credentials |-> None, properties |-> NoProps,
             dport |-> NoPort, mport |-> 49152, aport |-> AirPlayDefaultPort]
ArgsIdA == [identifier |-> IdA, credentials |-> "c1", properties |-> PropsMacA,
            dport |-> NoPort, mport |-> 49152, aport |-> AirPlayDefaultPort]
ArgsIdB == [identifier |-> IdB, credentials |-> "", properties |-> PropsDevA,
            dport |-> 3690, mport |-> 49153, aport |-> 7001]
ArgsIdA2 == [identifier |-> IdA, credentials |-> None, properties |-> PropsMacBDevB,
             dport |-> 0, mport |-> 49152, aport |-> AirPlayDefaultPort]
ArgsIdB2 == [identifier |-> IdB, credentials |-> "c2", properties |-> EmptyProps,
             dport |-> NoPort, mport |-> 49152, aport |-> AirPlayDefaultPort]

ServiceArgs == {ArgsNoId, ArgsIdA, ArgsIdB, ArgsIdA2, ArgsIdB2}

ServicesOf(args) ==
    {DmapService(a.identifier, a.credentials, a.dport, a.properties) : a \in args}
    \cup {MrpService(a.identifier, a.mport, a.credentials, a.properties) : a \in args}
    \cup {AirPlayService(a.identifier, a.aport, a.credentials, a.properties) : a \in args}

\* The services given to add_service
Services == ServicesOf(ServiceArgs)

\* The services given to add_service when two configurations are compared
EqServices == ServicesOf({ArgsNoId, ArgsIdA, ArgsIdB2})

\* The credentials given to set_credentials
CredentialArgs == {"", "c3"}

Address1 == "10.0.0.1"
Address2 == "10.0.0.2"
Name1 == "Living Room"
Name2 == "Bedroom"

-----------------------------------------------------------------------------
(* State machine *)

NoCall == [op |-> "__init__", on |-> "self", service |-> NoService,
           protocol |-> None, credentials |-> None, value |-> None,
           raised |-> None, repeated |-> FALSE]

\* The call add_service(service) on instance target repeats the last call
Repeats(target, service) ==
    /\ last.op = "add_service"
    /\ last.on = target
    /\ last.service = service

Init ==
    /\ self = AppleTV(Address1, Name1)
    /\ other = AppleTV(Address2, Name2)
    /\ last = NoCall
    /\ calls = 0

\* self.add_service(service)
AddService(service) ==
    /\ calls < MaxCalls
    /\ LET r == add_service(self, service)
       IN  /\ self' = r.conf
           /\ last' = [NoCall EXCEPT !.op = "add_service", !.service = service,
                                     !.raised = r.raised,
                                     !.repeated = Repeats("self", service)]
    /\ calls' = calls + 1
    /\ UNCHANGED other

\* self.set_credentials(protocol, credentials)
SetCredentials(protocol, credentials) ==
    /\ calls < MaxCalls
    /\ LET r == set_credentials(self, protocol, credentials)
       IN  /\ self' = r.conf
           /\ last' = [NoCall EXCEPT !.op = "set_credentials", !.protocol = protocol,
                                     !.credentials = credentials, !.value = r.value]
    /\ calls' = calls + 1
    /\ UNCHANGED other

\* self.main_service(protocol), protocol = None when it is not given
MainService(protocol) ==
    /\ calls < MaxCalls
    /\ LET r == main_service(self, protocol)
       IN  last' = [NoCall EXCEPT !.op = "main_service", !.protocol = protocol,
                                  !.service = r.value, !.raised = r.raised]
    /\ calls' = calls + 1
    /\ UNCHANGED <<self, other>>

Next ==
    \/ \E service \in Services : AddService(service)
    \/ \E protocol \in Protocols, credentials \in CredentialArgs :
          SetCredentials(protocol, credentials)
    \/ \E protocol \in Protocols \cup {None} : MainService(protocol)

Spec == Init /\ [][Next]_vars

\* Two configurations, created with the same or different address and name,
\* each receiving services
InitEq ==
    /\ self = AppleTV(Address1, Name1)
    /\ other \in {AppleTV(a, n) : a \in {Address1, Address2}, n \in {Name1, Name2}}
    /\ last = NoCall
    /\ calls = 0

\* other.add_service(service)
AddServiceOther(service) ==
    /\ calls < MaxCalls
    /\ LET r == add_service(other, service)
       IN  /\ other' = r.conf
           /\ last' = [NoCall EXCEPT !.op = "add_service", !.on = "other",
                                     !.service = service, !.raised = r.raised,
                                     !.repeated = Repeats("other", service)]
    /\ calls' = calls + 1
    /\ UNCHANGED self

NextEq ==
    \/ \E service \in EqServices : AddService(service)
    \/ \E service \in EqServices : AddServiceOther(service)

SpecEq == InitEq /\ [][NextEq]_vars

-----------------------------------------------------------------------------
(* Properties *)

\* The protocols a service is registered for
Registered(conf) == {P \in Protocols : get_service(conf, P) # NoService}

\* The number of records a configuration holds for protocol P
NumRecords(conf, P) ==
    Cardinality({i \in 1..Len(conf._services) : conf._services[i].value.protocol = P})

\* r is the union of the property maps p and q, q winning on common keys
IsUnion(r, p, q) ==
    /\ DOMAIN r = (DOMAIN p) \cup (DOMAIN q)
    /\ \A k \in DOMAIN q : r[k] = q[k]
    /\ \A k \in (DOMAIN p) \ (DOMAIN q) : r[k] = p[k]

\* Some registered service carries the property key k
HasKey(conf, k) ==
    \E i \in 1..Len(conf._services) : k \in DOMAIN conf._services[i].value.properties

\* C1: a configuration holds at most one record per protocol; an add_service
\* for a protocol P that already has a record leaves exactly one record for
\* P, whose properties are the union of the registered record's properties
\* and the incoming ones, the incoming value winning on every common key.
C1_AddServiceMerges ==
    [][/\ \A P \in Protocols : NumRecords(self', P) <= 1
       /\ (/\ calls' = calls + 1
           /\ last'.op = "add_service"
           /\ get_service(self, last'.service.protocol) # NoService)
          => LET P == last'.service.protocol
             IN  /\ NumRecords(self', P) = 1
                 /\ IsUnion(get_service(self', P).properties,
                            get_service(self, P).properties,
                            last'.service.properties)]_vars

\* A DMAP record created with macAddress aa:b1 (and credentials c1) has
\* been merged with a record carrying another macAddress and a deviceid
C1_Witness ==
    /\ last.op = "add_service"
    /\ last.service = DmapService(IdA, None, 0, PropsMacBDevB)
    /\ Len(self._services) = 1
    /\ get_service(self, DMAP) # NoService
    /\ get_service(self, DMAP).credentials = "c1"
    /\ get_service(self, DMAP).properties = PropsMacBDevB

\* C2: ready is true if and only if a DMAP or an MRP record is registered;
\* it is false for the empty and for the AirPlay-only configuration.
C2_ReadyIffDmapOrMrp ==
    /\ ready(self) <=> (get_service(self, DMAP) # NoService
                        \/ get_service(self, MRP) # NoService)
    /\ Registered(self) \subseteq {AirPlay} => ~ready(self)

C2_Witness ==
    /\ Registered(self) = {AirPlay}
    /\ ~ready(self)

\* C3: main_service() without a protocol returns the MRP record whenever
\* MRP is registered, the DMAP record when DMAP is registered and MRP is
\* not, raises NoServiceError when neither is registered, and never returns
\* an AirPlay record.
C3_MainServiceDefault ==
    LET r == main_service(self, None)
    IN  /\ MRP \in Registered(self)
           => r.raised = None /\ r.value = get_service(self, MRP)
        /\ (DMAP \in Registered(self) /\ MRP \notin Registered(self))
           => r.raised = None /\ r.value = get_service(self, DMAP)
        /\ (DMAP \notin Registered(self) /\ MRP \notin Registered(self))
           => r.raised = "NoServiceError"
        /\ r.raised = None => r.value.protocol # AirPlay

\* main_service() has returned the MRP record although DMAP was registered
\* before MRP
C3_Witness ==
    /\ last.op = "main_service"
    /\ last.protocol = None
    /\ Len(self._services) >= 2
    /\ self._services[1].key = DMAP
    /\ self._services[2].key = MRP
    /\ last.raised = None
    /\ last.service = get_service(self, MRP)

\* A registered service for protocol P with a non-null identifier
HasIdentifier(conf, P) ==
    /\ get_service(conf, P) # NoService
    /\ get_service(conf, P).identifier # None

\* C4: identifier is the MRP record's identifier when an MRP record with a
\* non-null identifier is registered, otherwise the DMAP record's non-null
\* identifier, otherwise the AirPlay record's non-null identifier; it is
\* absent only when no registered service has a non-null identifier.
C4_IdentifierPriority ==
    /\ HasIdentifier(self, MRP)
       => identifier(self) = get_service(self, MRP).identifier
    /\ (~HasIdentifier(self, MRP) /\ HasIdentifier(self, DMAP))
       => identifier(self) = get_service(self, DMAP).identifier
    /\ (~HasIdentifier(self, MRP) /\ ~HasIdentifier(self, DMAP)
            /\ HasIdentifier(self, AirPlay))
       => identifier(self) = get_service(self, AirPlay).identifier
    /\ identifier(self) = None
       => \A P \in Protocols : ~HasIdentifier(self, P)

\* C5: two configurations compare equal if and only if their resolved
\* identifiers are both present and equal, whatever their address, name and
\* services; two configurations without identifier never compare equal.
C5_EqualIffSameIdentifier ==
    /\ __eq__(self, other) <=> (/\ identifier(self) # None
                                /\ identifier(other) # None
                                /\ identifier(self) = identifier(other))
    /\ (identifier(self) = None /\ identifier(other) = None)
       => ~__eq__(self, other)

\* C6: set_credentials for a protocol without record returns false, raises
\* nothing and leaves the whole configuration unchanged.
C6_SetCredentialsMissing ==
    [][(/\ calls' = calls + 1
        /\ last'.op = "set_credentials"
        /\ get_service(self, last'.protocol) = NoService)
       => (/\ last'.value = FALSE
           /\ last'.raised = None
           /\ self' = self
           /\ get_service(self', last'.protocol) = NoService)]_vars

\* set_credentials has failed on a configuration holding other services
C6_Witness ==
    /\ last.op = "set_credentials"
    /\ last.value = FALSE
    /\ get_service(self, last.protocol) = NoService
    /\ Len(self._services) >= 1

\* C7: main_service(P) with an explicit protocol P returns the record
\* registered for P and raises NoServiceError when P is not registered,
\* whatever else is registered.
C7_MainServiceExplicit ==
    \A P \in Protocols :
        LET r == main_service(self, P)
        IN  IF P \in Registered(self)
            THEN r.raised = None /\ r.value = get_service(self, P)
            ELSE r.raised = "NoServiceError"

\* main_service(AirPlay) has raised although MRP is registered
C7_Witness ==
    /\ last.op = "main_service"
    /\ last.protocol = AirPlay
    /\ last.raised = "NoServiceError"
    /\ MRP \in Registered(self)

\* C8: ready is true exactly when main_service() without a protocol
\* returns a record instead of raising NoServiceError.
C8_ReadyIffMainService ==
    ready(self) <=> main_service(self, None).raised # "NoServiceError"

\* main_service() has returned a record of a ready configuration
C8_Witness ==
    /\ last.op = "main_service"
    /\ last.protocol = None
    /\ last.raised = None
    /\ last.service # NoService
    /\ ready(self)

\* C9: device_info.os_type is TvOS if an MRP record is registered, Legacy
\* if DMAP is registered and MRP is not, and Unknown otherwise.
C9_OsType ==
    device_info(self).os_type =
        IF MRP \in Registered(self) THEN TvOS
        ELSE IF DMAP \in Registered(self) THEN Legacy
        ELSE Unknown

\* DMAP was registered before MRP and the os_type is TvOS
C9_Witness ==
    /\ Len(self._services) >= 2
    /\ self._services[1].key = DMAP
    /\ self._services[2].key = MRP
    /\ device_info(self).os_type = TvOS

\* C10: device_info.mac is the upper-cased combined property macAddress
\* when some registered service carries that key, otherwise the upper-cased
\* combined property deviceid, and absent when no service carries either.
C10_Mac ==
    LET mac == device_info(self).mac
        properties == _all_properties(self)
    IN  /\ HasKey(self, "macAddress")
           => /\ mac = upper(properties["macAddress"])
              /\ properties["macAddress"] = MacA => mac = <<"A", "A", ":", "B", "1">>
              /\ properties["macAddress"] = MacB => mac = <<"E", "E", ":", "0", "2">>
        /\ (~HasKey(self, "macAddress") /\ HasKey(self, "deviceid"))
           => /\ mac = upper(properties["deviceid"])
              /\ properties["deviceid"] = DevA => mac = <<"C", "C", ":", "D", "3">>
              /\ properties["deviceid"] = DevB => mac = <<"0", "4", ":", "F", "F">>
        /\ (~HasKey(self, "macAddress") /\ ~HasKey(self, "deviceid"))
           => mac = NoValue

\* One service carries macAddress, a service registered later carries
\* deviceid, and mac is the upper-cased macAddress
C10_Witness ==
    /\ Len(self._services) = 2
    /\ self._services[1].value.properties = PropsMacA
    /\ self._services[2].value.properties = PropsDevA
    /\ device_info(self).mac = <<"A", "A", ":", "B", "1">>

\* C11: add_service is idempotent on identical data: an add_service that
\* repeats the add_service made just before it, with a record of the same
\* identifier, port, properties and credentials, leaves the configuration,
\* and with it every query result, as it was after the first call.
C11_AddServiceIdempotent ==
    [][(/\ calls' = calls + 1
        /\ last.op = "add_service"
        /\ last'.op = "add_service"
        /\ last'.service = last.service)
       => (/\ last'.repeated
           /\ last'.raised = None
           /\ self' = self
           /\ ready(self') = ready(self)
           /\ identifier(self') = identifier(self)
           /\ all_identifiers(self') = all_identifiers(self)
           /\ device_info(self') = device_info(self)
           /\ \A P \in Protocols \cup {None} :
                 main_service(self', P) = main_service(self, P))]_vars

\* A record with properties and credentials has been added twice to a
\* configuration that already held a different record for its protocol
C11_Witness ==
    /\ last.op = "add_service"
    /\ last.repeated
    /\ last.service = MrpService(IdB, 49153, "", PropsDevA)
    /\ get_service(self, MRP) # NoService
    /\ get_service(self, MRP).identifier = IdA
    /\ get_service(self, MRP).credentials = "c1"
    /\ get_service(self, MRP).properties =
          props_update(PropsMacA, PropsDevA)

\* C12: an add_service for an already registered protocol keeps the
\* registered record: get_service keeps the identifier (and port) the
\* first record was created with, even when the incoming record has another
\* identifier, and the resolved identifier does not change.
C12_MergeKeepsIdentifier ==
    [][(/\ calls' = calls + 1
        /\ last'.op = "add_service"
        /\ get_service(self, last'.service.protocol) # NoService)
       => LET P == last'.service.protocol
          IN  /\ get_service(self', P) # NoService
              /\ get_service(self', P).identifier = get_service(self, P).identifier
              /\ get_service(self', P).port = get_service(self, P).port
              /\ identifier(self') = identifier(self)]_vars

\* A record with another identifier has been merged into the MRP record,
\* which decides the resolved identifier
C12_Witness ==
    /\ last.op = "add_service"
    /\ last.service.protocol = MRP
    /\ last.service.identifier = IdB
    /\ get_service(self, MRP) # NoService
    /\ get_service(self, MRP).identifier = IdA
    /\ identifier(self) = IdA

\* C13: the credentials of a registered record are kept by an add_service
\* for its protocol whose record has empty or absent credentials, and are
\* replaced by the incoming credentials exactly when these are non-empty.
C13_MergeCredentials ==
    [][(/\ calls' = calls + 1
        /\ last'.op = "add_service"
        /\ get_service(self, last'.service.protocol) # NoService)
       => LET P == last'.service.protocol
              incoming == last'.service.credentials
          IN  /\ incoming \in {None, ""}
                 => get_service(self', P).credentials = get_service(self, P).credentials
              /\ incoming \notin {None, ""}
                 => get_service(self', P).credentials = incoming]_vars

\* Credentials set by set_credentials have survived the merge of a record
\* with empty credentials
C13_Witness ==
    /\ last.op = "add_service"
    /\ last.service.credentials = ""
    /\ get_service(self, last.service.protocol) # NoService
    /\ get_service(self, last.service.protocol).credentials = "c3"

\* The protocols of a configuration in the iteration order of _services
Keys(conf) == [i \in 1..Len(conf._services) |-> conf._services[i].key]

\* The position of the last service, in iteration order, that carries key k
LastWith(conf, k) ==
    CHOOSE i \in 1..Len(conf._services) :
        /\ k \in DOMAIN conf._services[i].value.properties
        /\ \A j \in 1..Len(conf._services) :
              k \in DOMAIN conf._services[j].value.properties => j <= i

\* The combined properties are the union of the services' properties, the
\* service coming last in iteration order winning
CombinedIsUnion(conf) ==
    LET combined == _all_properties(conf)
    IN  /\ DOMAIN combined =
              UNION {DOMAIN conf._services[i].value.properties :
                        i \in 1..Len(conf._services)}
        /\ \A k \in DOMAIN combined :
              combined[k] = conf._services[LastWith(conf, k)].value.properties[k]

\* C14: the combined property map of device_info is the union of the
\* registered services' properties, the service later in the iteration
\* order of the internal map winning on a common key; that order is the
\* order in which the protocols were first registered: a new protocol goes
\* last and a merge into a registered protocol moves nothing.
C14_CombinedProperties ==
    [][/\ CombinedIsUnion(self')
       /\ (calls' = calls + 1 /\ last'.op = "add_service")
          => Keys(self') =
                IF get_service(self, last'.service.protocol) # NoService
                THEN Keys(self)
                ELSE Append(Keys(self), last'.service.protocol)
       /\ (calls' = calls + 1 /\ last'.op # "add_service")
          => Keys(self') = Keys(self)]_vars

\* Two services carry macAddress; a record was merged into the first
\* registered one after the second was registered, and the value of the
\* second still wins
C14_Witness ==
    /\ calls = 3
    /\ Len(self._services) = 2
    /\ last.op = "add_service"
    /\ last.service.protocol = self._services[1].key
    /\ last.service.properties = PropsMacBDevB
    /\ self._services[1].value.properties = PropsMacBDevB
    /\ self._services[2].value.properties = PropsMacA
    /\ _all_properties(self)["macAddress"] = MacA
    /\ _all_properties(self)["deviceid"] = DevB

\* The positions of the services with a non-null identifier
WithIdentifier(conf) ==
    {i \in 1..Len(conf._services) : conf._services[i].value.identifier # None}

\* C15: all_identifiers holds one entry for each registered service with a
\* non-null identifier, none for the others, in the iteration order of the
\* services (the order of first registration); a resolved identifier that
\* is present is a member of all_identifiers.
C15_AllIdentifiers ==
    LET ids == all_identifiers(self)
        idx == WithIdentifier(self)
    IN  /\ Len(ids) = Cardinality(idx)
        /\ \A i \in idx :
              ids[Cardinality({j \in idx : j <= i})] = self._services[i].value.identifier
        /\ \A n \in 1..Len(ids) : ids[n] # None
        /\ identifier(self) # None => \E n \in 1..Len(ids) : ids[n] = identifier(self)

\* Three services, the second one without identifier
C15_Witness ==
    /\ Len(self._services) = 3
    /\ self._services[1].value.identifier = IdB
    /\ self._services[2].value.identifier = None
    /\ self._services[3].value.identifier = IdA
    /\ all_identifiers(self) = <<IdB, IdA>>
    /\ identifier(self) # None

\* C16: set_credentials(P, c) for a registered protocol P returns true and
\* changes only the credentials of the record for P, to c: the registered
\* protocols, every identifier, port and property map and the credentials
\* of the other records are unchanged.
C16_SetCredentialsRegistered ==
    [][(/\ calls' = calls + 1
        /\ last'.op = "set_credentials"
        /\ get_service(self, last'.protocol) # NoService)
       => (/\ last'.value = TRUE
           /\ last'.raised = None
           /\ self'.address = self.address
           /\ self'.name = self.name
           /\ Keys(self') = Keys(self)
           /\ \A i \in 1..Len(self._services) :
                 self'._services[i].value =
                    IF self._services[i].key = last'.protocol
                    THEN [self._services[i].value EXCEPT
                            !.credentials = last'.credentials]
                    ELSE self._services[i].value)]_vars

\* set_credentials has set the credentials of one of two records, the other
\* record keeping its own
C16_Witness ==
    /\ last.op = "set_credentials"
    /\ last.value = TRUE
    /\ last.credentials = "c3"
    /\ Len(self._services) = 2
    /\ get_service(self, last.protocol).credentials = "c3"
    /\ get_service(self, last.protocol).properties = PropsMacBDevB
    /\ \E i \in 1..2 : /\ self._services[i].key # last.protocol
                       /\ self._services[i].value.credentials = "c1"

\* C17: registration is monotonic: a registered protocol stays registered
\* at every call, so ready never turns false again and main_service()
\* never raises NoServiceError again once it has succeeded.
C17_RegistrationMonotonic ==
    [][/\ \A P \in Protocols :
             get_service(self, P) # NoService => get_service(self', P) # NoService
       /\ ready(self) => ready(self')
       /\ main_service(self, None).raised = None
          => main_service(self', None).raised = None]_vars

\* A DMAP record is still registered after a merge and a set_credentials
C17_Witness ==
    /\ calls >= 3
    /\ last.op = "set_credentials"
    /\ last.value = TRUE
    /\ Len(self._services) = 1
    /\ get_service(self, DMAP) # NoService
    /\ get_service(self, DMAP).credentials = "c3"
    /\ get_service(self, DMAP).properties = props_update(PropsMacA, PropsDevA)
    /\ ready(self)
    /\ main_service(self, None).raised = None

\* C18: every record is stored under its own protocol, so that every merge
\* made by add_service is between two records of the same protocol and the
\* merge of records of different protocols never happens.
C18_StoredUnderOwnProtocol ==
    [][/\ \A i \in 1..Len(self'._services) :
             self'._services[i].key = self'._services[i].value.protocol
       /\ \A P \in Protocols :
             get_service(self', P) # NoService => get_service(self', P).protocol = P
       /\ (calls' = calls + 1 /\ last'.op = "add_service")
          => /\ last'.raised = None
             /\ \A i \in 1..Len(self._services) :
                   self'._services[i] # self._services[i]
                   => self._services[i].value.protocol = last'.service.protocol]_vars

\* A record has been merged into the record of its protocol, in a
\* configuration holding a record of another protocol too
C18_Witness ==
    /\ last.op = "add_service"
    /\ last.raised = None
    /\ Len(self._services) = 2
    /\ get_service(self, last.service.protocol) # NoService
    /\ get_service(self, last.service.protocol).identifier = IdA
    /\ last.service.identifier = IdB
    /\ get_service(self, last.service.protocol).properties
          = props_update(PropsMacA, last.service.properties)
    /\ last.service.properties = PropsDevA

====
